---- MODULE Spec2Model ----
(***************************************************************************)
(* lucidlog-api: the /explain-log handler of src/app.py, with the prompt   *)
(* builder, the text extraction and the response normalizer it calls.      *)
(*                                                                         *)
(* A text is a sequence of lexemes.  A lexeme is one character (a          *)
(* backtick, a brace, a quote, a newline, ...) or a maximal run of letters *)
(* and digits (a word); no operation of the code looks inside a word.      *)
(* A Python value (the parsed JSON of a body or of the model's reply, a    *)
(* dict the code builds, None) is a record [t, s, a, o]: its type, the     *)
(* lexemes of a string or number, the items of a list, the dict as a       *)
(* function from keys (texts) to values.                                   *)
(***************************************************************************)
EXTENDS Integers, Sequences, FiniteSets, TLC

VARIABLES pc, body, log_entry, context, prompt, response, raw_text, debug_meta,
          parsed, exc, outcome, http, calls_started, calls_completed

vars == <<pc, body, log_entry, context, prompt, response, raw_text, debug_meta,
          parsed, exc, outcome, http, calls_started, calls_completed>>

----------------------------------------------------------------------------
(* Characters and texts *)

\* The backtick character.
BT == "BACKTICK"
NL == "\n"
CR == "\r"
SP == " "
\* U+2028 LINE SEPARATOR: whitespace for str.strip, a line boundary for
\* str.splitlines, an ordinary character inside a JSON string.
LS == "U+2028"
QT == "\""

Fence == <<BT, BT, BT>>

\* The characters str.strip() removes.
IsSpace(c) == c \in {SP, NL, CR, LS}

RECURSIVE lstrip(_)
lstrip(s) == IF s # <<>> /\ IsSpace(Head(s)) THEN lstrip(Tail(s)) ELSE s

RECURSIVE rstrip(_)
rstrip(s) ==
  IF s # <<>> /\ IsSpace(s[Len(s)]) THEN rstrip(SubSeq(s, 1, Len(s) - 1)) ELSE s

strip(s) == rstrip(lstrip(s))

startswith(s, p) == Len(s) >= Len(p) /\ SubSeq(s, 1, Len(p)) = p

\* str.splitlines(): a line ends at \n, \r, \r\n or U+2028; the boundary is
\* dropped, and a text that ends with a boundary has no empty last line.
RECURSIVE SplitFrom(_, _, _, _)
SplitFrom(s, i, cur, acc) ==
  IF i > Len(s) THEN (IF cur = <<>> THEN acc ELSE Append(acc, cur))
  ELSE IF s[i] = CR /\ i < Len(s) /\ s[i + 1] = NL
         THEN SplitFrom(s, i + 2, <<>>, Append(acc, cur))
  ELSE IF s[i] \in {NL, CR, LS}
         THEN SplitFrom(s, i + 1, <<>>, Append(acc, cur))
  ELSE SplitFrom(s, i + 1, Append(cur, s[i]), acc)

splitlines(s) == SplitFrom(s, 1, <<>>, <<>>)

\* sep.join(lines)
RECURSIVE join(_, _)
join(sep, lines) ==
  IF lines = <<>> THEN <<>>
  ELSE IF Len(lines) = 1 THEN lines[1]
  ELSE lines[1] \o sep \o join(sep, Tail(lines))

----------------------------------------------------------------------------
(* Python values *)

EmptyDict == <<>>

Str(x) == [t |-> "str", s |-> x, a |-> <<>>, o |-> EmptyDict]
Num(w) == [t |-> "num", s |-> <<w>>, a |-> <<>>, o |-> EmptyDict]
Bool(b) ==
  [t |-> "bool", s |-> <<IF b THEN "true" ELSE "false">>, a |-> <<>>,
   o |-> EmptyDict]
None == [t |-> "null", s |-> <<>>, a |-> <<>>, o |-> EmptyDict]
List(xs) == [t |-> "list", s |-> <<>>, a |-> xs, o |-> EmptyDict]
Dict(f) == [t |-> "dict", s |-> <<>>, a |-> <<>>, o |-> f]

\* A dict key written as one word.
Key(w) == <<w>>

\* bool(v)
Truthy(v) ==
  CASE v.t = "str" -> v.s # <<>>
    [] v.t = "num" -> v.s # <<"0">>
    [] v.t = "bool" -> v.s = <<"true">>
    [] v.t = "null" -> FALSE
    [] v.t = "list" -> v.a # <<>>
    [] v.t = "dict" -> DOMAIN v.o # {}

\* type(v).__name__, as the message of an AttributeError gives it
TypeName(v) ==
  CASE v.t = "str" -> "str"
    [] v.t = "num" -> "int"
    [] v.t = "bool" -> "bool"
    [] v.t = "null" -> "NoneType"
    [] v.t = "list" -> "list"
    [] v.t = "dict" -> "dict"

\* d.get(k): the value, or None
DictGet(d, k) == IF k \in DOMAIN d THEN d[k] ELSE None

\* d[k] = v
DictSet(d, k, v) == [x \in DOMAIN d \cup {k} |-> IF x = k THEN v ELSE d[x]]

\* d.setdefault(k, v): sets k only when d has no k
setdefault(d, k, v) == IF k \in DOMAIN d THEN d ELSE DictSet(d, k, v)

----------------------------------------------------------------------------
(* json.loads on a text: Python's decoder, strict mode *)

NumberWords == {"0", "1", "123"}

\* The whitespace the JSON decoder skips between tokens.
IsJsonWs(c) == c \in {SP, NL, CR}

RECURSIVE SkipWs(_)
SkipWs(s) == IF s # <<>> /\ IsJsonWs(Head(s)) THEN SkipWs(Tail(s)) ELSE s

ParseFail == [ok |-> FALSE, val |-> None, rest |-> <<>>]
ParseOk(v, r) == [ok |-> TRUE, val |-> v, rest |-> r]

\* The characters after an opening quote, up to the closing quote; a control
\* character (\n, \r) inside a string is an error.
RECURSIVE ScanString(_, _)
ScanString(s, acc) ==
  IF s = <<>> THEN ParseFail
  ELSE IF Head(s) = QT THEN ParseOk(Str(acc), Tail(s))
  ELSE IF Head(s) \in {NL, CR} THEN ParseFail
  ELSE ScanString(Tail(s), Append(acc, Head(s)))

RECURSIVE ParseValue(_), ParseMembers(_, _), ParseElements(_, _)

\* scan_once at s (whitespace before a value is skipped by its container)
ParseValue(s) ==
  IF s = <<>> THEN ParseFail
  ELSE IF Head(s) = QT THEN ScanString(Tail(s), <<>>)
  ELSE IF Head(s) \in NumberWords THEN ParseOk(Num(Head(s)), Tail(s))
  ELSE IF Head(s) = "null" THEN ParseOk(None, Tail(s))
  ELSE IF Head(s) = "true" THEN ParseOk(Bool(TRUE), Tail(s))
  ELSE IF Head(s) = "false" THEN ParseOk(Bool(FALSE), Tail(s))
  ELSE IF Head(s) = "{" THEN
    (IF SkipWs(Tail(s)) # <<>> /\ Head(SkipWs(Tail(s))) = "}"
       THEN ParseOk(Dict(EmptyDict), Tail(SkipWs(Tail(s))))
       ELSE ParseMembers(SkipWs(Tail(s)), EmptyDict))
  ELSE IF Head(s) = "[" THEN
    (IF SkipWs(Tail(s)) # <<>> /\ Head(SkipWs(Tail(s))) = "]"
       THEN ParseOk(List(<<>>), Tail(SkipWs(Tail(s))))
       ELSE ParseElements(SkipWs(Tail(s)), <<>>))
  ELSE ParseFail

\* JSONObject: "key" : value , "key" : value ... }   (a repeated key keeps
\* its last value)
ParseMembers(s, acc) ==
  IF s = <<>> \/ Head(s) # QT THEN ParseFail
  ELSE LET k == ScanString(Tail(s), <<>>) IN
    IF ~k.ok THEN ParseFail
    ELSE LET c == SkipWs(k.rest) IN
      IF c = <<>> \/ Head(c) # ":" THEN ParseFail
      ELSE LET v == ParseValue(SkipWs(Tail(c))) IN
        IF ~v.ok THEN ParseFail
        ELSE LET r == SkipWs(v.rest)
                 d == DictSet(acc, k.val.s, v.val) IN
          IF r = <<>> THEN ParseFail
          ELSE IF Head(r) = "}" THEN ParseOk(Dict(d), Tail(r))
          ELSE IF Head(r) = "," THEN ParseMembers(SkipWs(Tail(r)), d)
          ELSE ParseFail

\* JSONArray: value , value ... ]
ParseElements(s, acc) ==
  LET v == ParseValue(s) IN
    IF ~v.ok THEN ParseFail
    ELSE LET r == SkipWs(v.rest) IN
      IF r = <<>> THEN ParseFail
      ELSE IF Head(r) = "]" THEN ParseOk(List(Append(acc, v.val)), Tail(r))
      ELSE IF Head(r) = "," THEN ParseElements(SkipWs(Tail(r)), Append(acc, v.val))
      ELSE ParseFail

\* json.loads(text): [ok, val]; ok = FALSE is json.JSONDecodeError (no value,
\* or extra data after it)
json_loads(text) ==
  LET v == ParseValue(SkipWs(text)) IN
    IF v.ok /\ SkipWs(v.rest) = <<>> THEN [ok |-> TRUE, val |-> v.val]
    ELSE [ok |-> FALSE, val |-> None]

----------------------------------------------------------------------------
(* Prompt Builder *)

\* str(v) of a value that is no list and no dict
PyStr(v) ==
  CASE v.t = "str" -> v.s
    [] v.t = "num" -> v.s
    [] v.t = "bool" -> (IF v.s = <<"true">> THEN <<"True">> ELSE <<"False">>)
    [] v.t = "null" -> <<"None">>

RECURSIVE Indent(_)
Indent(n) == IF n = 0 THEN <<>> ELSE <<SP, SP>> \o Indent(n - 1)

\* json.dumps(v, indent=2) at nesting level lvl.  A dict is written in the
\* order of its keys, which the function of a dict does not keep: the dicts
\* drawn as context have one key.
RECURSIVE json_dumps(_, _), DumpItems(_, _), DumpMembers(_, _)
json_dumps(v, lvl) ==
  CASE v.t = "str" -> <<QT>> \o v.s \o <<QT>>
    [] v.t = "num" -> v.s
    [] v.t = "bool" -> v.s
    [] v.t = "null" -> <<"null">>
    [] v.t = "list" ->
         IF v.a = <<>> THEN <<"[", "]">>
         ELSE <<"[", NL>> \o DumpItems(v.a, lvl + 1) \o <<NL>> \o Indent(lvl) \o <<"]">>
    [] v.t = "dict" ->
         IF DOMAIN v.o = {} THEN <<"{", "}">>
         ELSE <<"{", NL>> \o DumpMembers(v.o, lvl + 1) \o <<NL>> \o Indent(lvl) \o <<"}">>

DumpItems(xs, lvl) ==
  Indent(lvl) \o json_dumps(xs[1], lvl)
    \o (IF Len(xs) = 1 THEN <<>> ELSE <<",", NL>> \o DumpItems(Tail(xs), lvl))

DumpMembers(d, lvl) ==
  LET k == CHOOSE x \in DOMAIN d : TRUE
      others == [x \in DOMAIN d \ {k} |-> d[x]]
  IN Indent(lvl) \o <<QT>> \o k \o <<QT, ":", SP>> \o json_dumps(d[k], lvl)
       \o (IF DOMAIN others = {} THEN <<>> ELSE <<",", NL>> \o DumpMembers(others, lvl))

\* LOG_EXPLAINER_INSTRUCTIONS.strip(), one lexeme
Instructions == <<"LOG_EXPLAINER_INSTRUCTIONS">>

Returns(v) == [ok |-> TRUE, val |-> v, exc |-> ""]
Raises(msg) == [ok |-> FALSE, val |-> None, exc |-> msg]

\* lines 43-66: the parts of the prompt around the log text, joined by \n
PromptText(logText, ctx) ==
  LET head == <<Instructions, <<>>, <<"LOG ENTRY:">>, logText>>
      mid == IF Truthy(ctx)
               THEN <<<<>>, <<"ADDITIONAL CONTEXT (JSON):">>, json_dumps(ctx, 0)>>
               ELSE <<>>
      tail == <<<<>>, <<"Return ONLY JSON as specified above.">>>>
  IN join(<<NL>>, head \o mid \o tail)

\* A variant that concatenates the log instead of taking str(log_entry): a
\* log that is no text raises TypeError.
build_prompt_concat(log, ctx) ==
  IF log.t # "str"
    THEN Raises("can only concatenate str (not \"" \o TypeName(log) \o "\") to str")
    ELSE Returns(Str(PromptText(log.s, ctx)))

\* build_prompt(log_entry, context): the prompt text; never raises on values
\* parsed from JSON (str() and json.dumps are total there)
build_prompt(log, ctx) == Returns(Str(PromptText(PyStr(log), ctx)))

----------------------------------------------------------------------------
(* Text extraction *)

\* An optional attribute is <<>> (absent or None) or <<x>>.
HasText(opt) == opt # <<>> /\ opt[1] # <<>>

RECURSIVE PartTexts(_)
PartTexts(parts) ==
  IF parts = <<>> THEN <<>>
  ELSE (IF HasText(parts[1].text) THEN <<parts[1].text[1]>> ELSE <<>>)
         \o PartTexts(Tail(parts))

RECURSIVE CandidateTexts(_)
CandidateTexts(cands) ==
  IF cands = <<>> THEN <<>>
  ELSE (IF cands[1].content = <<>> \/ cands[1].content[1].parts = <<>> THEN <<>>
        ELSE PartTexts(cands[1].content[1].parts[1]))
         \o CandidateTexts(Tail(cands))

\* extract_text_from_response(response)
extract_text_from_response(r) ==
  IF HasText(r.text) THEN strip(r.text[1])
  ELSE strip(join(<<NL>>, CandidateTexts(IF r.candidates = <<>> THEN <<>>
                                          ELSE r.candidates[1])))

----------------------------------------------------------------------------
(* Response Normalizer *)

\* The fallback object of the empty-reply and the malformed-JSON branches.
Fallback(summary, log) ==
  (Key("summary") :> Str(summary)) @@ (Key("severity") :> Str(<<"INFO">>))
    @@ (Key("component") :> None) @@ (Key("probable_causes") :> List(<<>>))
    @@ (Key("recommended_actions") :> List(<<>>)) @@ (Key("raw_log") :> log)

\* A variant that never attaches _debug to the empty-reply result.
EmptyResultNoDebug(log, dm) ==
  Fallback(<<"Model returned an empty response.">>, log)

\* lines 96-107: the result for an empty text
EmptyResult(log, dm) ==
  LET result == Fallback(<<"Model returned an empty response.">>, log)
  IN IF dm # <<>> /\ Truthy(dm[1]) THEN DictSet(result, Key("_debug"), dm[1])
     ELSE result

\* lines 112-118: strip the code fences of a trimmed text
StripFences(cleaned) ==
  IF startswith(cleaned, Fence)
    THEN LET lines == splitlines(cleaned) IN
      IF Len(lines) >= 2
        THEN LET l1 == Tail(lines)
                 l2 == IF l1 # <<>> /\ startswith(strip(l1[Len(l1)]), Fence)
                         THEN SubSeq(l1, 1, Len(l1) - 1) ELSE l1
             IN strip(join(<<NL>>, l2))
        ELSE cleaned
    ELSE cleaned

\* lines 120-130: the parsed value, or the fallback on JSONDecodeError
LoadOrFallback(cleaned, log) ==
  LET j == json_loads(cleaned) IN
    IF j.ok THEN j.val ELSE Dict(Fallback(cleaned, log))

\* A variant that sets raw_log whatever the object holds.
InjectRawLogForced(d, log) == DictSet(d, Key("raw_log"), log)

\* A variant that leaves the object as parsed.
InjectRawLogNever(d, log) == d

\* line 132: obj.setdefault("raw_log", log_entry)
InjectRawLog(d, log) == setdefault(d, Key("raw_log"), log)

\* lines 134-135
AttachDebug(d, dm) == IF dm # <<>> THEN setdefault(d, Key("_debug"), dm[1]) ELSE d

\* parse_json_from_response(text, log_entry, debug_meta): the result dict, or
\* the AttributeError of calling setdefault on a value that is no dict
parse_json_from_response(text, log, dm) ==
  IF text = <<>> THEN Returns(Dict(EmptyResult(log, dm)))
  ELSE LET obj == LoadOrFallback(StripFences(strip(text)), log) IN
    IF obj.t # "dict"
      THEN Raises("'" \o TypeName(obj) \o "' object has no attribute 'setdefault'")
      ELSE Returns(Dict(AttachDebug(InjectRawLog(obj.o, log), dm)))

----------------------------------------------------------------------------
(* Response envelopes *)

NoResponse == [code |-> 0, status |-> "", text |-> "", result |-> None]

\* helpers.rest_response(result): 200, {"status": "OK", "result": result}
rest_response(result) ==
  [code |-> 200, status |-> "OK", text |-> "", result |-> result]

\* helpers.rest_error(message): 400, {"status": "ERROR", "result": message}
rest_error(message) ==
  [code |-> 400, status |-> "ERROR", text |-> message, result |-> None]

\* What the server answers when an exception leaves the view function.
ServerError == [code |-> 500, status |-> "", text |-> "", result |-> None]

----------------------------------------------------------------------------
(* Inputs *)

\* Padding of a reply: at most MaxPad whitespace characters on each side.
MaxPad == 1

RECURSIVE TextsUpTo(_, _)
TextsUpTo(alphabet, n) ==
  IF n = 0 THEN {<<>>}
  ELSE LET shorter == TextsUpTo(alphabet, n - 1)
       IN shorter \cup {Append(t, c) : t \in shorter, c \in alphabet}

Pads == TextsUpTo({SP, NL}, MaxPad)

\* "w" as a JSON string literal
Q(w) == <<QT, w, QT>>

\* One member "k": v of a JSON object text.
Member(k, v) == Q(k) \o <<":", SP>> \o v

\* JSON object texts the model may reply.
JsonObjectTexts ==
  { <<"{", "}">>,
    <<"{">> \o Member("summary", Q("s1")) \o <<"}">>,
    <<"{">> \o Member("summary", Q("s1")) \o <<",", SP>>
            \o Member("raw_log", Q("other-log")) \o <<"}">>,
    <<"{">> \o Member("raw_log", <<"null">>) \o <<"}">>,
    <<"{">> \o Member("summary", Q("s1")) \o <<",">>
            \o Member("_debug", <<"{", "}">>) \o <<"}">>,
    <<"{", NL, SP>> \o Member("summary", Q("s1")) \o <<",", NL, SP>>
            \o Member("probable_causes", <<"[">> \o Q("c1") \o <<",", SP>> \o Q("c2") \o <<"]">>)
            \o <<NL, "}">>,
    <<"{", CR, NL>> \o Member("severity", Q("ERROR")) \o <<CR, NL, "}">>,
    <<"{">> \o Member("summary", <<QT, "s1", LS, "s2", QT>>) \o <<"}">> }

\* Other texts: valid JSON that is no object, malformed JSON, plain text,
\* nothing.
OtherTexts ==
  { <<"[", "]">>, <<"[", "1", "]">>, <<"123">>, <<"null">>, Q("s1"),
    <<"{">> \o Q("summary") \o <<":">>,
    <<"I", SP, "cannot", SP, "process", SP, "this">>,
    <<>> }

\* An opening fence line, or a fence with no line after it, or none.
Opens == {<<>>, Fence \o <<NL>>, Fence \o <<"json", NL>>, Fence}

Closes == {<<>>, <<NL>> \o Fence, <<NL, SP>> \o Fence}

ReplyTexts ==
  { a \o o \o t \o c \o z :
      a \in Pads, o \in Opens, t \in JsonObjectTexts \cup OtherTexts,
      c \in Closes, z \in Pads }

Part(opt) == [text |-> opt]
Candidate(optParts) ==
  [content |-> IF optParts = <<>> THEN <<>> ELSE <<[parts |-> optParts[1]]>>]

\* The shapes of candidates a response without text may carry.
CandidateLists ==
  { <<>>,                                                  \* None
    << <<>> >>,                                            \* []
    << <<Candidate(<<>>)>> >>,                             \* no content
    << <<Candidate(<< <<>> >>)>> >>,                       \* parts is None
    << <<Candidate(<< << <<Part(<<>>)>> >> >>)>> >>,       \* a part without text
    << <<Candidate(<< << <<Part(<< <<SP>> >>)>> >> >>)>> >>,
    << <<Candidate(<< << <<Part(<< Fence \o <<"json">> >>),
                           Part(<< <<"{">> \o Member("summary", Q("s1")) \o <<"}">> >>),
                           Part(<< Fence >>)>> >> >>)>> >>,
    << <<Candidate(<< << <<Part(<< <<"{">> >>)>> >> >>),
         Candidate(<<>>),
         Candidate(<< << <<Part(<<>>), Part(<< <<"}">> >>)>> >> >>)>> >> }

PromptFeedbacks == {None, Str(<<"SAFETY">>)}

\* The response objects generate_content may return.
Responses ==
  { [text |-> <<t>>, candidates |-> <<>>, prompt_feedback |-> None] :
      t \in ReplyTexts }
  \cup
  { [text |-> <<>>, candidates |-> c, prompt_feedback |-> f] :
      c \in CandidateLists, f \in PromptFeedbacks }

\* The messages of the exceptions generate_content may raise.
ErrorMessages == {"Upstream timeout", "429 quota exceeded"}

TheLog == Str(<<"2025-11-14T03:21:15Z", SP, "ERROR", SP, "auth-service">>)

\* request.get_json(silent=True): None for a body that is not JSON
Bodies ==
  { None,
    Dict(EmptyDict),
    List(<<>>),
    List(<<Num("1")>>),
    Str(<<"log">>),
    Num("123"),
    Dict(Key("foo") :> Str(<<"bar">>)),
    Dict(Key("log") :> Str(<<>>)),
    Dict(Key("log") :> None),
    Dict(Key("log") :> TheLog),
    Dict(Key("log") :> Str(<<"other-log">>)),
    Dict(Key("log") :> Num("123")),
    Dict((Key("log") :> TheLog) @@ (Key("context") :> Dict(EmptyDict))),
    Dict((Key("log") :> TheLog)
           @@ (Key("context") :> Dict(Key("host") :> Str(<<"node-03">>)))) }

----------------------------------------------------------------------------
(* The handler of POST /explain-log *)

NoExc == [where |-> "", msg |-> ""]

\* line 146: if not log_entry
LogMissing(log) == ~Truthy(log)

\* A variant that reports the bare message.
GeminiErrorBare(msg) == msg

\* line 171: f"Gemini API error: {e}"
GeminiError(msg) == "Gemini API error: " \o msg

\* A variant that builds the metadata for every reply.
DebugMetaAlways(raw, r) ==
  <<Dict((Key("has_candidates") :> Bool(r.candidates # <<>> /\ r.candidates[1] # <<>>))
           @@ (Key("prompt_feedback") :> r.prompt_feedback))>>

\* lines 159-164: debug_meta, None unless the extracted text is empty
DebugMeta(raw, r) ==
  IF raw = <<>>
    THEN <<Dict((Key("has_candidates") :> Bool(r.candidates # <<>> /\ r.candidates[1] # <<>>))
                  @@ (Key("prompt_feedback") :> r.prompt_feedback))>>
    ELSE <<>>

Init ==
  /\ pc = "idle"
  /\ body = None
  /\ log_entry = None
  /\ context = None
  /\ prompt = <<>>
  /\ response = <<>>
  /\ raw_text = <<>>
  /\ debug_meta = <<>>
  /\ parsed = None
  /\ exc = NoExc
  /\ outcome = "none"
  /\ http = NoResponse
  /\ calls_started = 0
  /\ calls_completed = 0

\* A request arrives.
Receive(b) ==
  /\ pc = "idle"
  /\ pc' = "received"
  /\ body' = b
  /\ UNCHANGED <<log_entry, context, prompt, response, raw_text, debug_meta,
                 parsed, exc, outcome, http, calls_started, calls_completed>>

\* The answer has been sent: the locals of the request are gone, and the
\* handler keeps nothing from one request to the next.
Return ==
  /\ pc = "done"
  /\ pc' = "idle"
  /\ body' = None
  /\ log_entry' = None
  /\ context' = None
  /\ prompt' = <<>>
  /\ response' = <<>>
  /\ raw_text' = <<>>
  /\ debug_meta' = <<>>
  /\ parsed' = None
  /\ exc' = NoExc
  /\ outcome' = "none"
  /\ http' = NoResponse
  /\ calls_started' = 0
  /\ calls_completed' = 0

\* lines 142-155: read the body, check the log, build the prompt and call
\* the model.  body.get on a body that is neither empty nor a dict raises
\* outside the try.
Begin ==
  /\ pc = "received"
  /\ UNCHANGED <<body, response, raw_text, debug_meta, parsed, calls_completed>>
  /\ IF Truthy(body) /\ body.t # "dict"
       THEN /\ exc' = [where |-> "body",
                       msg |-> "'" \o TypeName(body) \o "' object has no attribute 'get'"]
            /\ outcome' = "unhandled"
            /\ http' = ServerError
            /\ pc' = "done"
            /\ UNCHANGED <<log_entry, context, prompt, calls_started>>
       ELSE LET b == IF Truthy(body) THEN body.o ELSE EmptyDict
                log == DictGet(b, Key("log"))
                ctx == DictGet(b, Key("context"))
                p == build_prompt(log, ctx)
            IN /\ log_entry' = log
               /\ context' = ctx
               /\ IF LogMissing(log)
                    THEN /\ outcome' = "rejected"
                         /\ http' = rest_error("Missing 'log' field in JSON body")
                         /\ pc' = "done"
                         /\ UNCHANGED <<prompt, exc, calls_started>>
                    ELSE IF ~p.ok
                    THEN /\ exc' = [where |-> "build_prompt", msg |-> p.exc]
                         /\ outcome' = "caught"
                         /\ http' = rest_error(GeminiError(p.exc))
                         /\ pc' = "done"
                         /\ UNCHANGED <<prompt, calls_started>>
                    ELSE /\ prompt' = p.val.s
                         /\ calls_started' = calls_started + 1
                         /\ pc' = "calling"
                         /\ UNCHANGED <<exc, outcome, http>>

\* client.models.generate_content returns r.
ModelReturns(r) ==
  /\ pc = "calling"
  /\ response' = <<r>>
  /\ calls_completed' = calls_completed + 1
  /\ pc' = "returned"
  /\ UNCHANGED <<body, log_entry, context, prompt, raw_text, debug_meta, parsed,
                 exc, outcome, http, calls_started>>

\* client.models.generate_content raises an exception with message m, and
\* lines 170-171 catch it.
ModelRaises(m) ==
  /\ pc = "calling"
  /\ calls_completed' = calls_completed + 1
  /\ exc' = [where |-> "generate_content", msg |-> m]
  /\ outcome' = "caught"
  /\ http' = rest_error(GeminiError(m))
  /\ pc' = "done"
  /\ UNCHANGED <<body, log_entry, context, prompt, response, raw_text,
                 debug_meta, parsed, calls_started>>

\* lines 157-171: extract the text, normalize it and answer.
Finish ==
  /\ pc = "returned"
  /\ LET raw == extract_text_from_response(response[1])
         dm == DebugMeta(raw, response[1])
         res == parse_json_from_response(raw, log_entry, dm)
     IN /\ raw_text' = raw
        /\ debug_meta' = dm
        /\ IF res.ok
             THEN /\ parsed' = res.val
                  /\ outcome' = "ok"
                  /\ http' = rest_response(res.val)
                  /\ exc' = exc
             ELSE /\ parsed' = parsed
                  /\ outcome' = "caught"
                  /\ http' = rest_error(GeminiError(res.exc))
                  /\ exc' = [where |-> "parse_json_from_response", msg |-> res.exc]
  /\ pc' = "done"
  /\ UNCHANGED <<body, log_entry, context, prompt, response, calls_started,
                 calls_completed>>

Next ==
  \/ \E b \in Bodies : Receive(b)
  \/ Begin
  \/ \E r \in Responses : ModelReturns(r)
  \/ \E m \in ErrorMessages : ModelRaises(m)
  \/ Finish
  \/ Return

Spec == Init /\ [][Next]_vars

----------------------------------------------------------------------------
(* Properties *)

Done == pc = "done"

\* The model call of the request returned (it did not raise).
ModelReplied == response # <<>>

\* What json.loads makes of the reply once trimmed and unfenced.
ReplyJson == json_loads(StripFences(strip(raw_text)))

ReplyIsObject == raw_text # <<>> /\ ReplyJson.ok /\ ReplyJson.val.t = "dict"

BodyHasLog == body.t = "dict" /\ Key("log") \in DOMAIN body.o

\* C1 as stated: whenever a request ends with status OK, the raw_log of the
\* result equals the log of the request, whatever the model replied.
C1_RawLogIsAlwaysRequestLog ==
  (Done /\ outcome = "ok") => DictGet(parsed.o, Key("raw_log")) = log_entry

\* C1 amended: whenever a request ends with status OK, the result has a
\* raw_log; it is the raw_log of the model's JSON object when that object
\* carries one (the model's value is kept), and the log of the request
\* otherwise.
C1_RawLogIsRequestLogUnlessSupplied ==
  (Done /\ outcome = "ok") =>
    /\ Key("raw_log") \in DOMAIN parsed.o
    /\ parsed.o[Key("raw_log")] =
         IF ReplyIsObject /\ Key("raw_log") \in DOMAIN ReplyJson.val.o
           THEN ReplyJson.val.o[Key("raw_log")]
           ELSE log_entry

\* C1 witness: an OK result whose raw_log is the model's, not the request's.
C1_Witness ==
  /\ Done /\ outcome = "ok" /\ ReplyIsObject
  /\ Key("raw_log") \in DOMAIN ReplyJson.val.o
  /\ parsed.o[Key("raw_log")] = Str(<<"other-log">>)
  /\ log_entry = TheLog

\* C2 as stated: once the model call has returned, the request ends with
\* status OK whatever the reply text is (parse_json_from_response never
\* raises).
C2_ReplyNeverFailsRequest ==
  (Done /\ ModelReplied) => (outcome = "ok" /\ http.status = "OK")

\* C3 as stated: a request whose body has no log field is answered 400,
\* status ERROR, "Missing 'log' field", and no model call is made.
C3_MissingLogIsRejected ==
  (Done /\ ~BodyHasLog) =>
    /\ http.code = 400
    /\ http.status = "ERROR"
    /\ http.text = "Missing 'log' field in JSON body"
    /\ calls_started = 0

\* C4: an exception raised by the model call, by prompt building or by
\* normalization is answered 400, status ERROR, "Gemini API error: "
\* followed by its message, and does not leave the handler.
C4_ExceptionsBecomeGeminiError ==
  (Done /\ exc.where \in {"build_prompt", "generate_content", "parse_json_from_response"}) =>
    /\ outcome = "caught"
    /\ http.code = 400
    /\ http.status = "ERROR"
    /\ http.text = "Gemini API error: " \o exc.msg

\* C4 witness: the model call timed out and the request was answered.
C4_Witness ==
  /\ Done /\ exc = [where |-> "generate_content", msg |-> "Upstream timeout"]
  /\ http.text = "Gemini API error: Upstream timeout"

\* C5 as stated: a request whose log is present but no text fails inside
\* build_prompt: no model call is ever started for it, and it is answered
\* 400, status ERROR with the failure of build_prompt.
C5_NonTextLogFailsInPrompt ==
  (BodyHasLog /\ Truthy(log_entry) /\ log_entry.t # "str") =>
    /\ calls_started = 0
    /\ Done => (exc.where = "build_prompt" /\ http.code = 400 /\ http.status = "ERROR")

\* C6: when the reply text is a JSON object, the answer is 200, status OK,
\* and every key of that object is in the result with the model's value.
C6_ObjectFieldsReturnedUnchanged ==
  (Done /\ ModelReplied /\ raw_text # <<>> /\ json_loads(raw_text).ok
     /\ json_loads(raw_text).val.t = "dict") =>
    /\ http.code = 200
    /\ http.status = "OK"
    /\ http.result.t = "dict"
    /\ \A k \in DOMAIN json_loads(raw_text).val.o :
         /\ k \in DOMAIN http.result.o
         /\ http.result.o[k] = json_loads(raw_text).val.o[k]

\* C6 witness: an object with a summary and its own raw_log was answered.
C6_Witness ==
  /\ Done /\ ModelReplied /\ http.code = 200
  /\ json_loads(raw_text).ok /\ json_loads(raw_text).val.t = "dict"
  /\ DOMAIN json_loads(raw_text).val.o = {Key("summary"), Key("raw_log")}
  /\ http.result.o[Key("summary")] = Str(<<"s1">>)

\* The request passed the check of line 146.
PassedLogCheck == outcome \notin {"rejected", "unhandled"}

C8_EmptyReplyResult ==
  (Done /\ ModelReplied /\ raw_text = <<>>) =>
    /\ outcome = "ok"
    /\ http.status = "OK"
    /\ http.result = parsed
    /\ parsed.t = "dict"
    /\ DOMAIN parsed.o =
         {Key("summary"), Key("severity"), Key("component"), Key("probable_causes"),
          Key("recommended_actions"), Key("raw_log"), Key("_debug")}
    /\ parsed.o[Key("summary")] = Str(<<"Model returned an empty response.">>)
    /\ parsed.o[Key("severity")] = Str(<<"INFO">>)
    /\ parsed.o[Key("component")] = None
    /\ parsed.o[Key("probable_causes")] = List(<<>>)
    /\ parsed.o[Key("recommended_actions")] = List(<<>>)
    /\ parsed.o[Key("raw_log")] = log_entry
    /\ parsed.o[Key("_debug")].t = "dict"
    /\ DOMAIN parsed.o[Key("_debug")].o = {Key("has_candidates"), Key("prompt_feedback")}
    /\ parsed.o[Key("_debug")].o[Key("has_candidates")] =
         Bool(response[1].candidates # <<>> /\ response[1].candidates[1] # <<>>)
    /\ parsed.o[Key("_debug")].o[Key("prompt_feedback")] = response[1].prompt_feedback

\* C8 witness: a reply of whitespace only was answered with the empty-reply
\* result.
C8_Witness ==
  /\ Done /\ ModelReplied /\ response[1].text = << <<SP>> >>
  /\ raw_text = <<>> /\ http.status = "OK"
  /\ Key("_debug") \in DOMAIN parsed.o

\* C9 as stated: an OK result carries _debug only if the extracted text was
\* empty.
C9_DebugOnlyForEmptyText ==
  (Done /\ outcome = "ok" /\ Key("_debug") \in DOMAIN parsed.o) => raw_text = <<>>

\* C9 amended: an OK result built from a non-empty text carries _debug only
\* if the model's JSON object itself carries _debug, and then with the
\* model's value; the handler adds _debug only for an empty text, and a
\* malformed-JSON fallback never carries it.
C9_DebugOnlyForEmptyTextOrSupplied ==
  (Done /\ outcome = "ok" /\ Key("_debug") \in DOMAIN parsed.o /\ raw_text # <<>>) =>
    /\ debug_meta = <<>>
    /\ ReplyIsObject
    /\ Key("_debug") \in DOMAIN ReplyJson.val.o
    /\ parsed.o[Key("_debug")] = ReplyJson.val.o[Key("_debug")]

\* C9 witness: an OK result of a non-empty reply that carries _debug.
C9_Witness ==
  /\ Done /\ outcome = "ok" /\ raw_text # <<>>
  /\ Key("_debug") \in DOMAIN parsed.o

\* The reply is an opening fence line, the JSON object text J and a closing
\* fence line.
IsFenced(J) ==
  /\ ModelReplied
  /\ \E tag \in {<<>>, <<"json">>} :
       response[1].text = <<Fence \o tag \o <<NL>> \o J \o <<NL>> \o Fence>>

\* C10 as stated: for every JSON object text J, the fenced reply gives the
\* result that J alone gives.
C10_FenceStrippingIsTransparent ==
  \A J \in JsonObjectTexts :
    (Done /\ IsFenced(J)) =>
      /\ outcome = "ok"
      /\ parsed = parse_json_from_response(J, log_entry, <<>>).val

====
